---- MODULE Spec2Model ----
(***************************************************************************)
(* Model of the DXGI / OpenGL interop bridge of flux-screensavers:         *)
(*   src/windows/src/platform/windows/dxgi_swapchain.rs                    *)
(*     is_intel_gpu, create_dxgi_swapchain, with_dxgi_swapchain            *)
(* create_dxgi_swapchain is modelled statement by statement (pc is the     *)
(* position in the function); every answer of the driver, of Direct3D and  *)
(* of the GL layer is an input drawn when the call is made.  calls and     *)
(* cycleLog record the calls a recording driver would observe.             *)
(* Environment: a driver whose extensions string names WGL_NV_DX_interop2  *)
(* resolves the seven entry points to callable functions, and the render   *)
(* callback returns.                                                       *)
(***************************************************************************)
EXTENDS Integers, Sequences, FiniteSets, TLC

VARIABLES
    vendor,         \* gl.get_parameter_string(GL::VENDOR), a sequence of characters
    handle_kind,    \* variant of the RawWindowHandle argument
    intel_gpu,      \* what is_intel_gpu(gl) returned at line 127
    pc,             \* position inside create_dxgi_swapchain
    result,         \* what create_dxgi_swapchain produced
    nativeCreated,  \* native objects D3D11CreateDeviceAndSwapChain has handed out
    nativeLive,     \* native objects still referenced (not yet dropped)
    extQueried,     \* the extensions string has been fetched (line 192)
    extensions,     \* the extensions string, a sequence of chunks
    dx_interop,     \* the entry points resolved into WGLDXInteropExtensionFunctions
    color_buffer,   \* swap_chain.GetBuffer(0), 0 when not fetched
    clears,         \* number of ClearRenderTargetView calls
    gl_handle_d3d,  \* HANDLE returned by DXOpenDeviceNV
    color_handle_gl,\* HANDLE returned by the last DXRegisterObjectNV
    fbo, rbo, texture, \* GL object names, 0 when not created
    glLive,         \* GL objects created and not deleted: <<kind, name>>
    boundFramebuffer,  \* GL_FRAMEBUFFER binding, 0 is the default framebuffer
    attachment,     \* color attachment 0 of fbo: <<kind, name>> or <<>>
    fb_status,      \* value of check_framebuffer_status, -1 when not queried
    registered,     \* GL objects the driver registered as shared: <<kind, name>>
    calls,          \* calls observed during construction
    dxgi_interop,   \* the DXGIInterop returned to the caller, or NoContext
    cpc,            \* position inside with_dxgi_swapchain
    cycles,         \* completed calls of with_dxgi_swapchain
    locked,         \* the shared object is locked for GL (driver state)
    renders,        \* invocations of the render callback in the current cycle
    cycleLog,       \* calls observed during the render/present cycles
    flags,          \* settings window: the Config handed to new()
    config,         \* settings window: self, the Config being edited
    stored,         \* settings window: the persisted configuration
    messages,       \* settings window: messages handled by update
    commands,       \* settings window: the command each update returned
    saves,          \* settings window: calls of save, with their outcome
    errors_logged   \* settings window: errors written by log::error!

vars == <<vendor, handle_kind, intel_gpu, pc, result, nativeCreated, nativeLive, extQueried,
          extensions, dx_interop, color_buffer, clears, gl_handle_d3d,
          color_handle_gl, fbo, rbo, texture, glLive, boundFramebuffer,
          attachment, fb_status, registered, calls, dxgi_interop, cpc, cycles, locked,
          renders, cycleLog, flags, config, stored, messages, commands, saves,
          errors_logged>>

settingsVars == <<flags, config, stored, messages, commands, saves, errors_logged>>
inputVars  == <<vendor, handle_kind, intel_gpu>>
nativeVars == <<nativeCreated, nativeLive>>
extVars    == <<extQueried, extensions, dx_interop>>
d3dVars    == <<color_buffer, clears>>
handleVars == <<gl_handle_d3d, color_handle_gl, registered>>
glVars     == <<fbo, rbo, texture, glLive, boundFramebuffer, attachment, fb_status>>
cycleVars  == <<dxgi_interop, cpc, cycles, locked, renders, cycleLog>>

(***************************************************************************)
(* Bounds of the model.                                                    *)
(***************************************************************************)
MaxVendorLen == 6
MaxCycles == 2
MaxMessages == 3

(***************************************************************************)
(* Program constants.                                                      *)
(***************************************************************************)
WGL_ACCESS_READ_WRITE_DISCARD_NV == 2
GL_RENDERBUFFER == 36161
GL_TEXTURE_2D == 3553
GL_FRAMEBUFFER_COMPLETE == 36053
GL_FRAMEBUFFER_INCOMPLETE_ATTACHMENT == 36054
GL_FRAMEBUFFER_INCOMPLETE_MISSING_ATTACHMENT == 36055
GL_FRAMEBUFFER_UNSUPPORTED == 36061
LockCount == 1
PresentSyncInterval == 1
PresentFlags == 0

\* The byte string "Intel" of line 117.
IntelName == <<"I", "n", "t", "e", "l">>
\* The byte string "WGL_NV_DX_interop2" of line 202, cut in two chunks so that
\* the version-1 extension name "WGL_NV_DX_interop" is a proper prefix of it.
InteropExtensionName == <<"WGL_NV_DX_interop", "2">>
\* The seven entry points of WGLDXInteropExtensionFunctions.
EntryPoints == {"wglDXCloseDeviceNV", "wglDXLockObjectsNV", "wglDXOpenDeviceNV",
                "wglDXRegisterObjectNV", "wglDXSetResourceShareHandleNV",
                "wglDXUnlockObjectsNV", "wglDXUnregisterObjectNV"}
NativeObjects == {"swap_chain", "context", "device"}

(***************************************************************************)
(* Inputs.                                                                 *)
(***************************************************************************)
VendorChars == {"I", "i", "n", "t", "e", "l"}
\* Every vendor string of at most MaxVendorLen characters over VendorChars.
VendorStrings == UNION {[1..n -> VendorChars] : n \in 0..MaxVendorLen}
\* The vendor strings the full construction is run with.
VendorSamples == {<<>>,
                  <<"I", "n", "t", "e", "l">>,
                  <<"i", "n", "t", "e", "l">>,
                  <<"n", "I", "n", "t", "e", "l", "l">>,
                  <<"I", "n", "t", "l">>}
HandleKinds == {"Win32", "Other"}
ExtensionStrings == {<<>>,
                     <<"WGL_ARB_extensions_string">>,
                     <<"WGL_ARB_extensions_string", " ", "WGL_NV_DX_interop">>,
                     <<"WGL_ARB_extensions_string", " ", "WGL_NV_DX_interop", "2">>,
                     <<"WGL_NV_DX_interop", "2", " ", "WGL_ARB_extensions_string">>}
\* HANDLE values a driver may return: NULL, INVALID_HANDLE_VALUE, real handles.
DeviceHandles == {0, -1, 21}
ObjectHandles == {0, -1, 31, 32}
Resources == {41, 42}
GLNames == {1, 2}
OsErrors == {0, 6}
FramebufferStatuses == {GL_FRAMEBUFFER_COMPLETE, GL_FRAMEBUFFER_INCOMPLETE_ATTACHMENT,
                        GL_FRAMEBUFFER_INCOMPLETE_MISSING_ATTACHMENT,
                        GL_FRAMEBUFFER_UNSUPPORTED, 0, 36059, 36182}

(***************************************************************************)
(* Pure functions.                                                         *)
(***************************************************************************)
\* str::contains: some window of the haystack equals the needle.
Contains(haystack, needle) ==
    \E i \in 1..(Len(haystack) - Len(needle) + 1) :
        SubSeq(haystack, i, i + Len(needle) - 1) = needle

ToLowerChar(c) == CASE c = "I" -> "i" [] OTHER -> c
ToLower(s) == [i \in 1..Len(s) |-> ToLowerChar(s[i])]

\* A prober that ignores letter case.
is_intel_gpu_any_case(v) == Contains(ToLower(v), ToLower(IntelName))
\* A prober that only looks at the start of the vendor string.
is_intel_gpu_prefix(v) ==
    Len(v) >= Len(IntelName) /\ SubSeq(v, 1, Len(IntelName)) = IntelName

is_intel_gpu(v) == Contains(v, IntelName)

\* HANDLE::is_invalid of the windows crate: NULL or INVALID_HANDLE_VALUE.
IsInvalid(h) == h = 0 \/ h = -1

ExtensionSupported_always(ext) == TRUE

\* Line 202: extensions.contains("WGL_NV_DX_interop2").
ExtensionSupported(ext) == Contains(ext, InteropExtensionName)

\* The results of create_dxgi_swapchain.
NoResult == [tag |-> "None", detail |-> "", code |-> 0]
Ok == [tag |-> "Ok", detail |-> "", code |-> 0]
Unsupported == [tag |-> "Unsupported", detail |-> "", code |-> 0]
Failure(s) == [tag |-> "Failure", detail |-> s, code |-> 0]
FailureCode(s, c) == [tag |-> "Failure", detail |-> s, code |-> c]
Panicked(s) == [tag |-> "Panic", detail |-> s, code |-> 0]

NoContext == [gl_handle_d3d |-> 0, color_handle_gl |-> 0, fbo |-> 0, live |-> FALSE]

\* An observed call: entry point, arguments, returned value (0 when none).
CallR(op, args, ret) == [op |-> op, args |-> args, ret |-> ret]
Call(op, args) == CallR(op, args, 0)

FramebufferStatusOutcome_strict(status) ==
    CASE status = GL_FRAMEBUFFER_COMPLETE -> Ok
      [] status = GL_FRAMEBUFFER_UNSUPPORTED -> FailureCode("DXGI Framebuffer: ", status)
      [] status = GL_FRAMEBUFFER_INCOMPLETE_ATTACHMENT ->
             Failure("GL Framebuffer incomplete attachment")
      [] status = GL_FRAMEBUFFER_INCOMPLETE_MISSING_ATTACHMENT ->
             Failure("GL Framebuffer missing attachment")
      [] OTHER -> FailureCode("DXGI Framebuffer: ", status)

\* The match of lines 324-337: Ok stands for "fall through to line 339".
FramebufferStatusOutcome(status) ==
    CASE status = GL_FRAMEBUFFER_COMPLETE -> Ok
      [] status = GL_FRAMEBUFFER_UNSUPPORTED -> Ok
      [] status = GL_FRAMEBUFFER_INCOMPLETE_ATTACHMENT ->
             Failure("GL Framebuffer incomplete attachment")
      [] status = GL_FRAMEBUFFER_INCOMPLETE_MISSING_ATTACHMENT ->
             Failure("GL Framebuffer missing attachment")
      [] OTHER -> FailureCode("DXGI Framebuffer: ", status)

(***************************************************************************)
(* Initial states.                                                         *)
(***************************************************************************)
InitConstruction ==
    /\ handle_kind \in HandleKinds
    /\ intel_gpu = "unprobed"
    /\ pc = "start"
    /\ result = NoResult
    /\ nativeCreated = {}
    /\ nativeLive = {}
    /\ extQueried = FALSE
    /\ extensions = <<>>
    /\ dx_interop = {}
    /\ color_buffer = 0
    /\ clears = 0
    /\ gl_handle_d3d = 0
    /\ color_handle_gl = 0
    /\ fbo = 0
    /\ rbo = 0
    /\ texture = 0
    /\ glLive = {}
    /\ boundFramebuffer = 0
    /\ attachment = <<>>
    /\ fb_status = -1
    /\ registered = {}
    /\ calls = <<>>
    /\ dxgi_interop = NoContext
    /\ cpc = "idle"
    /\ cycles = 0
    /\ locked = FALSE
    /\ renders = 0
    /\ cycleLog = <<>>

\* The two options of the form and the configurations built from them.
ColorModes == {"ColorA", "ColorB", "ColorC"}
FillModes == {"FillA", "FillB", "FillC"}

MakeConfig(color, fill) ==
    [flux |-> [color_mode |-> color],
     platform |-> [windows |-> [fill_mode |-> fill]]]

Configs == {MakeConfig(c, f) : c \in ColorModes, f \in FillModes}

\* The screensaver runs without the settings window: its state stays fixed.
SettingsIdle ==
    /\ flags = MakeConfig("ColorA", "FillA")
    /\ config = flags
    /\ stored = flags
    /\ messages = <<>>
    /\ commands = <<>>
    /\ saves = <<>>
    /\ errors_logged = 0

InitRest == InitConstruction /\ SettingsIdle

Init == vendor \in VendorSamples /\ InitRest

\* The prober and the first steps of construction, for every vendor string.
InitProbe == vendor \in VendorStrings /\ InitRest

(***************************************************************************)
(* create_dxgi_swapchain, lines 123-351.                                   *)
(***************************************************************************)
\* A return that keeps the native objects referenced.
ReturnErr_leak(r) ==
    /\ pc' = "returned"
    /\ result' = r
    /\ UNCHANGED nativeLive

\* Returning Err drops the locals: the COM references of lines 177-179 are
\* released.
ReturnErr(r) ==
    /\ pc' = "returned"
    /\ result' = r
    /\ nativeLive' = {}

\* unwrap / expect on a missing value.  An unwinding panic drops the locals, an
\* aborting one does not: both builds are possible.
Panic(msg) ==
    /\ pc' = "panicked"
    /\ result' = Panicked(msg)
    /\ nativeLive' \in {nativeLive, {}}

\* Lines 127-130.
CheckVendor ==
    /\ pc = "start"
    /\ intel_gpu' = IF is_intel_gpu(vendor) THEN "intel" ELSE "other"
    /\ IF is_intel_gpu(vendor)
          THEN ReturnErr(Unsupported)
          ELSE pc' = "handle" /\ UNCHANGED <<result, nativeLive>>
    /\ UNCHANGED <<settingsVars, vendor, handle_kind, nativeCreated, extVars, d3dVars, handleVars, glVars,
                   calls, cycleVars>>

IsWin32Handle_any(kind) == TRUE

\* Lines 132-135: the match on RawWindowHandle::Win32.
IsWin32Handle(kind) == kind = "Win32"

\* Lines 132-137.
CheckHandle ==
    /\ pc = "handle"
    /\ IF IsWin32Handle(handle_kind)
          THEN pc' = "d3d" /\ UNCHANGED <<result, nativeLive>>
          ELSE ReturnErr(Failure("Only Win32 handles can be used to create a DXGI swapchain"))
    /\ UNCHANGED <<settingsVars, inputVars, nativeCreated, extVars, d3dVars, handleVars, glVars,
                   calls, cycleVars>>

\* Lines 139-175: D3D11CreateDeviceAndSwapChain fails, or succeeds and fills
\* the output objects in `out`.
CreateDeviceAndSwapChain ==
    /\ pc = "d3d"
    /\ \E ok \in BOOLEAN, out \in SUBSET NativeObjects :
          /\ calls' = Append(calls, Call("D3D11CreateDeviceAndSwapChain", <<>>))
          /\ IF ok
                THEN /\ Cardinality(out) >= 2
                     /\ nativeCreated' = out
                     /\ nativeLive' = out
                     /\ pc' = "expect"
                     /\ UNCHANGED result
                ELSE /\ out = {}
                     /\ UNCHANGED nativeCreated
                     /\ ReturnErr(Failure("Failed to create DXGI device and swapchain"))
    /\ UNCHANGED <<settingsVars, inputVars, extVars, d3dVars, handleVars, glVars, cycleVars>>

\* Lines 177-179: the three expect calls, in source order.
ExpectOutputs ==
    /\ pc = "expect"
    /\ IF "swap_chain" \notin nativeCreated
          THEN Panic("failed to created swapchain")
          ELSE IF "context" \notin nativeCreated
                  THEN Panic("failed to create immediate context")
                  ELSE IF "device" \notin nativeCreated
                          THEN Panic("failed to create device")
                          ELSE pc' = "ext" /\ UNCHANGED <<result, nativeLive>>
    /\ UNCHANGED <<settingsVars, inputVars, nativeCreated, extVars, d3dVars, handleVars, glVars,
                   calls, cycleVars>>

\* Lines 185-205: resolve wglGetExtensionsStringARB, fetch the extensions
\* string (the empty string when the entry point is absent), test it.
FetchExtensions ==
    /\ pc = "ext"
    /\ \E resolved \in BOOLEAN, str \in ExtensionStrings :
          /\ resolved \/ str = <<>>
          /\ extQueried' = TRUE
          /\ extensions' = IF resolved THEN str ELSE <<>>
          /\ calls' = IF resolved
                         THEN Append(calls, Call("wglGetExtensionsStringARB", <<>>))
                         ELSE calls
          /\ IF ExtensionSupported(extensions')
                THEN pc' = "resolve" /\ UNCHANGED <<result, nativeLive>>
                ELSE ReturnErr(Unsupported)
    /\ UNCHANGED <<settingsVars, inputVars, nativeCreated, dx_interop, d3dVars, handleVars, glVars,
                   cycleVars>>

\* Lines 207-232: the seven wglGetProcAddress lookups.
ResolveEntryPoints ==
    /\ pc = "resolve"
    /\ dx_interop' = EntryPoints
    /\ pc' = "buffer"
    /\ UNCHANGED <<settingsVars, inputVars, result, nativeVars, extQueried, extensions, d3dVars,
                   handleVars, glVars, calls, cycleVars>>

\* Line 236: swap_chain.GetBuffer(0).unwrap().
GetBuffer ==
    /\ pc = "buffer"
    /\ \E ok \in BOOLEAN, res \in Resources :
          /\ calls' = Append(calls, Call("GetBuffer", <<0>>))
          /\ IF ok
                THEN /\ color_buffer' = res
                     /\ pc' = "view"
                     /\ UNCHANGED <<result, nativeLive>>
                ELSE /\ res = 41
                     /\ UNCHANGED color_buffer
                     /\ Panic("unwrap on an Err value")
    /\ UNCHANGED <<settingsVars, inputVars, nativeCreated, extVars, clears, handleVars, glVars,
                   cycleVars>>

ClearColor_opaque == <<0, 0, 0, 1>>

\* Line 248: clear_color, transparent black.
ClearColor == <<0, 0, 0, 0>>

\* Lines 237-253: CreateRenderTargetView(..).unwrap(), OMSetRenderTargets,
\* ClearRenderTargetView(color_buffer_view.as_ref().unwrap(), ..).
\*   "err": the call fails; "none": it succeeds without filling the view.
BindAndClear ==
    /\ pc = "view"
    /\ \E outcome \in {"ok", "err", "none"} :
          CASE outcome = "err" ->
                 /\ calls' = Append(calls, Call("CreateRenderTargetView", <<color_buffer>>))
                 /\ UNCHANGED clears
                 /\ Panic("unwrap on an Err value")
            [] outcome = "none" ->
                 /\ calls' = calls \o <<Call("CreateRenderTargetView", <<color_buffer>>),
                                        Call("OMSetRenderTargets", <<0>>)>>
                 /\ UNCHANGED clears
                 /\ Panic("unwrap on a None value")
            [] outcome = "ok" ->
                 /\ calls' = calls \o <<Call("CreateRenderTargetView", <<color_buffer>>),
                                        Call("OMSetRenderTargets", <<color_buffer>>),
                                        Call("ClearRenderTargetView",
                                             <<color_buffer>> \o ClearColor)>>
                 /\ clears' = clears + 1
                 /\ pc' = "open"
                 /\ UNCHANGED <<result, nativeLive>>
    /\ UNCHANGED <<settingsVars, inputVars, nativeCreated, extVars, color_buffer, handleVars, glVars,
                   cycleVars>>

OpenDeviceFails_unchecked(h) == FALSE

\* Line 257: gl_handle_d3d.is_invalid().
OpenDeviceFails(h) == IsInvalid(h)

\* Lines 256-266.
OpenDevice ==
    /\ pc = "open"
    /\ \E h \in DeviceHandles, e \in OsErrors :
          /\ calls' = Append(calls, CallR("DXOpenDeviceNV", <<>>, h))
          /\ gl_handle_d3d' = h
          /\ IF OpenDeviceFails(h)
                THEN ReturnErr(FailureCode(
                         "Failed to open the GL DX interop device. OS Error: ", e))
                ELSE /\ e = 0
                     /\ pc' = "fbo"
                     /\ UNCHANGED <<result, nativeLive>>
    /\ UNCHANGED <<settingsVars, inputVars, nativeCreated, extVars, d3dVars, color_handle_gl,
                   registered, glVars, cycleVars>>

\* Line 268: gl.create_framebuffer().unwrap().
CreateFramebuffer ==
    /\ pc = "fbo"
    /\ \E name \in GLNames \cup {0} :
          /\ calls' = Append(calls, Call("create_framebuffer", <<>>))
          /\ IF name = 0
                THEN /\ Panic("unwrap on an Err value")
                     /\ UNCHANGED <<fbo, glLive>>
                ELSE /\ fbo' = name
                     /\ glLive' = glLive \cup {<<"framebuffer", name>>}
                     /\ pc' = "rbo"
                     /\ UNCHANGED <<result, nativeLive>>
    /\ UNCHANGED <<settingsVars, inputVars, nativeCreated, extVars, d3dVars, handleVars, rbo, texture,
                   boundFramebuffer, attachment, fb_status, cycleVars>>

\* Line 269: gl.create_renderbuffer().unwrap().
CreateRenderbuffer ==
    /\ pc = "rbo"
    /\ \E name \in GLNames \cup {0} :
          /\ calls' = Append(calls, Call("create_renderbuffer", <<>>))
          /\ IF name = 0
                THEN /\ Panic("unwrap on an Err value")
                     /\ UNCHANGED <<rbo, glLive>>
                ELSE /\ rbo' = name
                     /\ glLive' = glLive \cup {<<"renderbuffer", name>>}
                     /\ pc' = "reg_rbo"
                     /\ UNCHANGED <<result, nativeLive>>
    /\ UNCHANGED <<settingsVars, inputVars, nativeCreated, extVars, d3dVars, handleVars, fbo, texture,
                   boundFramebuffer, attachment, fb_status, cycleVars>>

\* The arguments of DXRegisterObjectNV, lines 271-277 and 286-292.
RegisterArgs(name, object_type) ==
    <<gl_handle_d3d, color_buffer, name, object_type, WGL_ACCESS_READ_WRITE_DISCARD_NV>>

\* Lines 279 and 294: color_handle_gl.is_invalid().
RegistrationFailed(h) == IsInvalid(h)

\* Lines 271-279: register the back buffer against the renderbuffer.
RegisterRenderbuffer ==
    /\ pc = "reg_rbo"
    /\ \E h \in ObjectHandles :
          /\ calls' = Append(calls, CallR("DXRegisterObjectNV",
                                          RegisterArgs(rbo, GL_RENDERBUFFER), h))
          /\ color_handle_gl' = h
          /\ registered' = IF IsInvalid(h) THEN registered
                           ELSE registered \cup {<<"renderbuffer", rbo>>}
          /\ pc' = IF RegistrationFailed(h) THEN "del_rbo" ELSE "attach_rbo"
    /\ UNCHANGED <<settingsVars, inputVars, result, nativeVars, extVars, d3dVars, gl_handle_d3d,
                   glVars, cycleVars>>

DeleteRenderbuffer_skipped(live, name) == live

\* gl.delete_renderbuffer: the name is no longer a live object.
AfterDeleteRenderbuffer(live, name) == live \ {<<"renderbuffer", name>>}

\* Line 282.
DeleteRenderbuffer ==
    /\ pc = "del_rbo"
    /\ calls' = Append(calls, Call("delete_renderbuffer", <<rbo>>))
    /\ glLive' = AfterDeleteRenderbuffer(glLive, rbo)
    /\ pc' = "tex"
    /\ UNCHANGED <<settingsVars, inputVars, result, nativeVars, extVars, d3dVars, handleVars, fbo,
                   rbo, texture, boundFramebuffer, attachment, fb_status, cycleVars>>

\* Line 283: gl.create_texture().unwrap().
CreateTexture ==
    /\ pc = "tex"
    /\ \E name \in GLNames \cup {0} :
          /\ calls' = Append(calls, Call("create_texture", <<>>))
          /\ IF name = 0
                THEN /\ Panic("unwrap on an Err value")
                     /\ UNCHANGED <<texture, glLive>>
                ELSE /\ texture' = name
                     /\ glLive' = glLive \cup {<<"texture", name>>}
                     /\ pc' = "reg_tex"
                     /\ UNCHANGED <<result, nativeLive>>
    /\ UNCHANGED <<settingsVars, inputVars, nativeCreated, extVars, d3dVars, handleVars, fbo, rbo,
                   boundFramebuffer, attachment, fb_status, cycleVars>>

\* Lines 286-301: register the back buffer against the texture.
RegisterTexture ==
    /\ pc = "reg_tex"
    /\ \E h \in ObjectHandles, e \in OsErrors :
          /\ calls' = Append(calls, CallR("DXRegisterObjectNV",
                                          RegisterArgs(texture, GL_TEXTURE_2D), h))
          /\ color_handle_gl' = h
          /\ registered' = IF IsInvalid(h) THEN registered
                           ELSE registered \cup {<<"texture", texture>>}
          /\ IF RegistrationFailed(h)
                THEN ReturnErr(FailureCode(
                         "Failed to register texture with DXGI. OS Error: ", e))
                ELSE /\ e = 0
                     /\ pc' = "attach_tex"
                     /\ UNCHANGED <<result, nativeLive>>
    /\ UNCHANGED <<settingsVars, inputVars, nativeCreated, extVars, d3dVars, gl_handle_d3d, glVars,
                   cycleVars>>

\* Lines 304-311.
AttachTexture ==
    /\ pc = "attach_tex"
    /\ calls' = calls \o <<Call("bind_framebuffer", <<fbo>>),
                           Call("framebuffer_texture_2d", <<GL_TEXTURE_2D, texture, 0>>)>>
    /\ boundFramebuffer' = fbo
    /\ attachment' = <<"texture", texture>>
    /\ pc' = "status"
    /\ UNCHANGED <<settingsVars, inputVars, result, nativeVars, extVars, d3dVars, handleVars, fbo,
                   rbo, texture, glLive, fb_status, cycleVars>>

\* Lines 315-321.
AttachRenderbuffer ==
    /\ pc = "attach_rbo"
    /\ calls' = calls \o <<Call("bind_framebuffer", <<fbo>>),
                           Call("framebuffer_renderbuffer", <<GL_RENDERBUFFER, rbo>>)>>
    /\ boundFramebuffer' = fbo
    /\ attachment' = <<"renderbuffer", rbo>>
    /\ pc' = "status"
    /\ UNCHANGED <<settingsVars, inputVars, result, nativeVars, extVars, d3dVars, handleVars, fbo,
                   rbo, texture, glLive, fb_status, cycleVars>>

\* Lines 324-337.
CheckFramebufferStatus ==
    /\ pc = "status"
    /\ \E status \in FramebufferStatuses :
          /\ calls' = Append(calls, CallR("check_framebuffer_status", <<>>, status))
          /\ fb_status' = status
          /\ IF FramebufferStatusOutcome(status) = Ok
                THEN pc' = "finish" /\ UNCHANGED <<result, nativeLive>>
                ELSE ReturnErr(FramebufferStatusOutcome(status))
    /\ UNCHANGED <<settingsVars, inputVars, nativeCreated, extVars, d3dVars, handleVars, fbo, rbo,
                   texture, glLive, boundFramebuffer, attachment, cycleVars>>

FinalBinding_kept(f) == f

\* Line 339: bind_framebuffer(GL::FRAMEBUFFER, None), the default framebuffer.
FinalBinding(f) == 0

\* Lines 339-349: unbind the framebuffer and move everything into DXGIInterop.
Finish ==
    /\ pc = "finish"
    /\ calls' = Append(calls, Call("bind_framebuffer", <<FinalBinding(fbo)>>))
    /\ boundFramebuffer' = FinalBinding(fbo)
    /\ dxgi_interop' = [gl_handle_d3d |-> gl_handle_d3d,
                        color_handle_gl |-> color_handle_gl,
                        fbo |-> fbo, live |-> TRUE]
    /\ result' = Ok
    /\ pc' = "returned"
    /\ UNCHANGED <<settingsVars, inputVars, nativeVars, extVars, d3dVars, handleVars, fbo, rbo,
                   texture, glLive, attachment, fb_status, cpc, cycles, locked,
                   renders, cycleLog>>

(***************************************************************************)
(* with_dxgi_swapchain, lines 91-110.                                      *)
(***************************************************************************)
constructionVars == <<inputVars, pc, result, nativeVars, extVars, d3dVars, handleVars,
                      glVars, calls, dxgi_interop>>

BoolRet(ok) == IF ok THEN 1 ELSE 0

\* Lines 96-98 and 104-106: the arguments of the lock and of the unlock call.
LockArgs == <<dxgi_interop.gl_handle_d3d, LockCount, dxgi_interop.color_handle_gl>>

PresentArgs_nosync == <<0, PresentFlags>>

\* Line 109: swap_chain.Present(1, 0).
PresentArgs == <<PresentSyncInterval, PresentFlags>>

AfterLock_checked(ok) == IF ok THEN "locked" ELSE "idle"

\* Lines 95-101: the statement after the lock call, whatever it returned.
AfterLock(ok) == "locked"

\* Lines 95-99.  The BOOL the driver returns is dropped; the driver locks an
\* object only when it reports success, and only an object that is not locked.
CycleLock ==
    /\ dxgi_interop.live
    /\ cpc = "idle"
    /\ cycles < MaxCycles
    /\ \E ok \in BOOLEAN :
          /\ ok => ~locked
          /\ cycleLog' = Append(cycleLog, CallR("DXLockObjectsNV", LockArgs, BoolRet(ok)))
          /\ locked' = (locked \/ ok)
          /\ cpc' = AfterLock(ok)
    /\ renders' = 0
    /\ UNCHANGED <<settingsVars, constructionVars, cycles>>

\* Line 101: the callback is invoked with &dxgi_interop.fbo.
CycleRender ==
    /\ cpc = "locked"
    /\ cycleLog' = Append(cycleLog, Call("render", <<dxgi_interop.fbo>>))
    /\ renders' = renders + 1
    /\ cpc' = "rendering"
    /\ UNCHANGED <<settingsVars, constructionVars, cycles, locked>>

\* Lines 103-107: the callback has returned.  The BOOL is dropped; the driver
\* unlocks only a locked object and only when it reports success.
CycleUnlock ==
    /\ cpc = "rendering"
    /\ \E ok \in BOOLEAN :
          /\ ok => locked
          /\ cycleLog' = Append(cycleLog, CallR("DXUnlockObjectsNV", LockArgs, BoolRet(ok)))
          /\ locked' = (locked /\ ~ok)
    /\ cpc' = "unlocked"
    /\ UNCHANGED <<settingsVars, constructionVars, cycles, renders>>

\* Line 109: let _ = Present(1, 0); the HRESULT is dropped.
CyclePresent ==
    /\ cpc = "unlocked"
    /\ \E ok \in BOOLEAN :
          cycleLog' = Append(cycleLog, CallR("Present", PresentArgs, BoolRet(ok)))
    /\ cycles' = cycles + 1
    /\ cpc' = "idle"
    /\ UNCHANGED <<settingsVars, constructionVars, locked, renders>>

(***************************************************************************)
(* Specifications.                                                         *)
(***************************************************************************)
Next ==
    \/ CheckVendor
    \/ CheckHandle
    \/ CreateDeviceAndSwapChain
    \/ ExpectOutputs
    \/ FetchExtensions
    \/ ResolveEntryPoints
    \/ GetBuffer
    \/ BindAndClear
    \/ OpenDevice
    \/ CreateFramebuffer
    \/ CreateRenderbuffer
    \/ RegisterRenderbuffer
    \/ DeleteRenderbuffer
    \/ CreateTexture
    \/ RegisterTexture
    \/ AttachTexture
    \/ AttachRenderbuffer
    \/ CheckFramebufferStatus
    \/ Finish
    \/ CycleLock
    \/ CycleRender
    \/ CycleUnlock
    \/ CyclePresent

Spec == Init /\ [][Next]_vars

NextProbe ==
    \/ CheckVendor
    \/ CheckHandle
    \/ CreateDeviceAndSwapChain

SpecProbe == InitProbe /\ [][NextProbe]_vars

(***************************************************************************)
(* The settings window, settings_window.rs.                                *)
(***************************************************************************)
screensaverVars == <<constructionVars, cpc, cycles, locked, renders, cycleLog>>

\* Application::new, lines 34-36: the window starts on the configuration it is
\* given and returns no command.  The persisted configuration is whatever an
\* earlier run left.
InitSettings ==
    /\ vendor = <<>>
    /\ InitConstruction
    /\ handle_kind = "Win32"
    /\ flags \in Configs
    /\ config = flags
    /\ stored \in Configs
    /\ messages = <<>>
    /\ commands = <<>>
    /\ saves = <<>>
    /\ errors_logged = 0

Message(tag, value) == [tag |-> tag, value |-> value]

\* A color update that also resets the fill mode.
set_color_mode_clobber(cfg, new_color) ==
    [cfg EXCEPT !.flux.color_mode = new_color, !.platform.windows.fill_mode = "FillA"]

\* Line 45.
set_color_mode(cfg, new_color) == [cfg EXCEPT !.flux.color_mode = new_color]

\* Line 50.
set_fill_mode(cfg, new_fill_mode) ==
    [cfg EXCEPT !.platform.windows.fill_mode = new_fill_mode]

\* A Save that keeps the window open when the save failed.
CommandAfterSave_onSuccess(ok) == IF ok THEN "close" ELSE "none"

\* Lines 55-56: the error is logged and the close command is returned whatever
\* the outcome.
CommandAfterSave(ok) == "close"

\* Config::save: a save that succeeds persists the configuration, one that
\* fails leaves what was persisted; it does not change the Config it saves.
save(cfg, ok, old) == IF ok THEN cfg ELSE old

\* Lines 44-47.
SetColorMode ==
    \E new_color \in ColorModes :
        /\ Len(messages) < MaxMessages
        /\ config' = set_color_mode(config, new_color)
        /\ messages' = Append(messages, Message("SetColorMode", new_color))
        /\ commands' = Append(commands, "none")
        /\ UNCHANGED <<flags, stored, saves, errors_logged, screensaverVars>>

\* Lines 49-52.
SetFillMode ==
    \E new_fill_mode \in FillModes :
        /\ Len(messages) < MaxMessages
        /\ config' = set_fill_mode(config, new_fill_mode)
        /\ messages' = Append(messages, Message("SetFillMode", new_fill_mode))
        /\ commands' = Append(commands, "none")
        /\ UNCHANGED <<flags, stored, saves, errors_logged, screensaverVars>>

\* Lines 54-57.
Save ==
    \E ok \in BOOLEAN :
        /\ Len(messages) < MaxMessages
        /\ saves' = Append(saves, [config |-> config, ok |-> ok])
        /\ stored' = save(config, ok, stored)
        /\ errors_logged' = errors_logged + (IF ok THEN 0 ELSE 1)
        /\ messages' = Append(messages, Message("Save", "none"))
        /\ commands' = Append(commands, CommandAfterSave(ok))
        /\ UNCHANGED <<flags, config, screensaverVars>>

NextSettings ==
    \/ SetColorMode
    \/ SetFillMode
    \/ Save

SpecSettings == InitSettings /\ [][NextSettings]_vars

(***************************************************************************)
(* Claims.                                                                 *)
(***************************************************************************)
\* A handle a caller can use: neither NULL nor INVALID_HANDLE_VALUE.
ValidHandle(h) == h # 0 /\ h # -1

\* The position a cycle call has reached, as a number of calls made.
CyclePosition ==
    CASE cpc = "idle" -> 0
      [] cpc = "locked" -> 1
      [] cpc = "rendering" -> 2
      [] cpc = "unlocked" -> 3

\* The call expected at place i of the cycle log.
CycleCallOk(i) ==
    LET c == cycleLog[i]
        k == (i - 1) % 4
    IN CASE k = 0 -> c.op = "DXLockObjectsNV"
                     /\ c.args = <<gl_handle_d3d, 1, color_handle_gl>>
         [] k = 1 -> c.op = "render" /\ c.args = <<fbo>>
         [] k = 2 -> c.op = "DXUnlockObjectsNV"
                     /\ c.args = <<gl_handle_d3d, 1, color_handle_gl>>
         [] k = 3 -> c.op = "Present" /\ c.args = <<1, 0>>

\* C1: for any number of consecutive calls of with_dxgi_swapchain the observed
\* calls are exactly lock(device handle, 1, shared-object handle), the render
\* callback once with the context's fbo, unlock(same arguments), Present(1, 0),
\* in that order, nothing skipped, repeated or reordered.
C1_CycleCallSequence ==
    /\ Len(cycleLog) = 4 * cycles + CyclePosition
    /\ \A i \in 1..Len(cycleLog) : CycleCallOk(i)
    /\ renders = (IF cpc \in {"rendering", "unlocked"} THEN 1 ELSE 0)
                 + (IF cpc = "idle" /\ cycles > 0 THEN 1 ELSE 0)
    /\ cycleLog # <<>> => dxgi_interop.live /\ result.tag = "Ok"

\* Two consecutive cycle calls have completed.
C1_Witness == cycles = 2 /\ cpc = "idle" /\ Len(cycleLog) = 8

\* C2: whenever the render callback is executing, the shared object is held
\* locked (a lock has taken effect and no unlock has been issued since),
\* whatever the lock entry point returned.
C2_RenderOnlyWhileLocked == cpc = "rendering" => locked

\* The construction calls with the given entry point.
CallsOf(op) == {i \in 1..Len(calls) : calls[i].op = op}
\* The registration calls for the given GL object type.
RegistrationsOf(object_type) ==
    {i \in CallsOf("DXRegisterObjectNV") : calls[i].args[4] = object_type}

\* C3: a returned context has a valid interop device handle and a valid
\* shared-object handle; when DXOpenDeviceNV or the final (texture)
\* registration returns an invalid handle, construction returns an error and
\* no context is returned.
C3_NoPartiallyValidContext ==
    /\ result.tag = "Ok" <=> dxgi_interop.live
    /\ dxgi_interop.live =>
          /\ ValidHandle(dxgi_interop.gl_handle_d3d)
          /\ ValidHandle(dxgi_interop.color_handle_gl)
          /\ \A i \in CallsOf("DXOpenDeviceNV") :
                calls[i].ret = dxgi_interop.gl_handle_d3d
          /\ \E i \in CallsOf("DXRegisterObjectNV") :
                /\ calls[i].ret = dxgi_interop.color_handle_gl
                /\ \A j \in CallsOf("DXRegisterObjectNV") : j <= i
    /\ \A i \in CallsOf("DXOpenDeviceNV") \cup RegistrationsOf(GL_TEXTURE_2D) :
          ~ValidHandle(calls[i].ret) =>
              /\ pc = "returned"
              /\ result.tag = "Failure"
              /\ ~dxgi_interop.live
              /\ i = Len(calls)

\* A context was returned after the fallback, and a construction was refused.
C3_Witness ==
    /\ dxgi_interop.live
    /\ dxgi_interop.color_handle_gl = 32
    /\ RegistrationsOf(GL_TEXTURE_2D) # {}

\* The renderbuffers and textures that are live.
LiveSharedCandidates == {o \in glLive : o[1] \in {"renderbuffer", "texture"}}

\* C4: a successfully constructed context has exactly one live object among
\* the renderbuffer and the texture, and that one is the registered shared
\* object: no texture was created when the renderbuffer registration
\* succeeded, and the renderbuffer is deleted on the texture path.
C4_ExactlyOneSharedObject ==
    dxgi_interop.live =>
        /\ Cardinality(LiveSharedCandidates) = 1
        /\ LiveSharedCandidates = registered
        /\ <<"renderbuffer", rbo>> \in registered =>
              texture = 0 /\ CallsOf("create_texture") = {}
        /\ (\E t \in GLNames : <<"texture", t>> \in registered) =>
              /\ <<"renderbuffer", rbo>> \notin glLive
              /\ <<"texture", texture>> \in glLive
              /\ CallsOf("delete_renderbuffer") # {}

\* A context built on the texture path, where both objects were created.
C4_Witness ==
    /\ dxgi_interop.live
    /\ rbo # 0
    /\ texture # 0
    /\ registered = {<<"texture", texture>>}

\* C5: whenever the renderbuffer registration returns an invalid handle,
\* construction deletes the renderbuffer, creates a texture and performs
\* exactly one texture registration with the same device handle, resource and
\* access mode; no texture registration follows a successful renderbuffer
\* registration, and a second failure ends construction with a Failure.
C5_FallbackMonotonicity ==
    /\ Cardinality(RegistrationsOf(GL_RENDERBUFFER)) <= 1
    /\ \A i \in RegistrationsOf(GL_RENDERBUFFER) :
          /\ ValidHandle(calls[i].ret) => RegistrationsOf(GL_TEXTURE_2D) = {}
          /\ (~ValidHandle(calls[i].ret) /\ pc \in {"returned", "panicked"}) =>
                /\ Len(calls) >= i + 3
                /\ calls[i + 1] = Call("delete_renderbuffer", <<calls[i].args[3]>>)
                /\ calls[i + 2].op = "create_texture"
                /\ RegistrationsOf(GL_TEXTURE_2D) = {i + 3}
                /\ calls[i + 3].args[1] = calls[i].args[1]
                /\ calls[i + 3].args[2] = calls[i].args[2]
                /\ calls[i + 3].args[5] = calls[i].args[5]
                /\ calls[i + 3].args[5] = 2
                /\ ~ValidHandle(calls[i + 3].ret) =>
                      result.tag = "Failure" /\ Len(calls) = i + 3

\* C6: once registration has succeeded the outcome of construction is decided
\* by the framebuffer status alone: complete and "unsupported" give a context,
\* incomplete attachment and missing attachment give a Failure, every other
\* status gives a Failure that carries the status; none gives Unsupported.
C6_FramebufferStatusPolicy ==
    fb_status # -1 =>
        /\ pc \in {"finish", "returned"}
        /\ result.tag # "Unsupported"
        /\ pc = "finish" => fb_status \in {36053, 36061} /\ result = NoResult
        /\ pc = "returned" =>
              CASE fb_status = 36053 -> result.tag = "Ok" /\ dxgi_interop.live
                [] fb_status = 36061 -> result.tag = "Ok" /\ dxgi_interop.live
                [] fb_status = 36054 ->
                       /\ result.tag = "Failure"
                       /\ result.detail = "GL Framebuffer incomplete attachment"
                       /\ ~dxgi_interop.live
                [] fb_status = 36055 ->
                       /\ result.tag = "Failure"
                       /\ result.detail = "GL Framebuffer missing attachment"
                       /\ ~dxgi_interop.live
                [] OTHER ->
                       /\ result.tag = "Failure"
                       /\ result.detail = "DXGI Framebuffer: "
                       /\ result.code = fb_status
                       /\ ~dxgi_interop.live

\* The tolerated vendor status led to a returned context.
C6_Witness == fb_status = 36061 /\ pc = "returned" /\ result.tag = "Ok"

\* The extension name "WGL_NV_DX_interop2" occurs nowhere in the string.
InteropNameAbsent(ext) ==
    ~\E i \in 1..Len(ext) :
        i + 1 <= Len(ext) /\ ext[i] = "WGL_NV_DX_interop" /\ ext[i + 1] = "2"

\* C7 as stated: when the extension name is absent from the extensions string,
\* construction ends with Unsupported before any native device, immediate
\* context or swapchain has been created.
C7_UnsupportedBeforeNativeCreation ==
    (extQueried /\ InteropNameAbsent(extensions)) =>
        /\ pc = "returned"
        /\ result = Unsupported
        /\ nativeCreated = {}
        /\ CallsOf("D3D11CreateDeviceAndSwapChain") = {}

\* C7 amended: when the extension name is absent, construction ends with
\* Unsupported; the native device, immediate context and swapchain have been
\* created by then (creation precedes the extension check) and are released
\* when construction returns, so none is left alive; no interop device has
\* been opened and no GL object created.
C7_UnsupportedAfterNativeCreation ==
    (extQueried /\ InteropNameAbsent(extensions)) =>
        /\ pc = "returned"
        /\ result = Unsupported
        /\ nativeCreated = {"swap_chain", "context", "device"}
        /\ Cardinality(CallsOf("D3D11CreateDeviceAndSwapChain")) = 1
        /\ nativeLive = {}
        /\ CallsOf("DXOpenDeviceNV") = {}
        /\ glLive = {}

\* Unsupported was returned for a string that names only the version-1
\* extension, after the native objects were created.
C7_Witness ==
    /\ extQueried
    /\ extensions = <<"WGL_ARB_extensions_string", " ", "WGL_NV_DX_interop">>
    /\ result = Unsupported
    /\ nativeCreated # {}

\* C8: when the extension name is absent from the extensions string, or the
\* entry point that fetches the string cannot be resolved, none of the seven
\* interop entry points is resolved or called, no interop device is opened, no
\* GL object is created, and construction returns Unsupported, not Failure.
C8_AbsentExtensionSkipsResolution ==
    (extQueried /\ InteropNameAbsent(extensions)) =>
        /\ pc = "returned"
        /\ result.tag = "Unsupported"
        /\ result.tag # "Failure"
        /\ dx_interop = {}
        /\ \A i \in 1..Len(calls) :
              calls[i].op \notin {"DXOpenDeviceNV", "DXRegisterObjectNV"}
        /\ cycleLog = <<>>
        /\ gl_handle_d3d = 0
        /\ registered = {}
        /\ fbo = 0 /\ rbo = 0 /\ texture = 0
        /\ glLive = {}
        /\ ~dxgi_interop.live

\* The entry point wglGetExtensionsStringARB was not resolved.
C8_Witness ==
    /\ extQueried
    /\ CallsOf("wglGetExtensionsStringARB") = {}
    /\ result.tag = "Unsupported"

\* "Intel", in exactly this letter case, occurs in the vendor string.
HasExactIntel(v) ==
    \E i \in 1..Len(v) :
        /\ i + 4 <= Len(v)
        /\ v[i] = "I" /\ v[i + 1] = "n" /\ v[i + 2] = "t"
        /\ v[i + 3] = "e" /\ v[i + 4] = "l"

\* "Intel", in some letter case, occurs in the vendor string.
HasAnyCaseIntel(v) ==
    \E i \in 1..Len(v) :
        /\ i + 4 <= Len(v)
        /\ v[i] \in {"I", "i"} /\ v[i + 1] \in {"n", "N"} /\ v[i + 2] \in {"t", "T"}
        /\ v[i + 3] \in {"e", "E"} /\ v[i + 4] \in {"l", "L"}

\* C9: the prober reports incompatible exactly when the vendor string contains
\* "Intel" as a case-sensitive substring; every other vendor string passes;
\* when it reports incompatible, construction returns Unsupported without
\* creating any device, swapchain or GL object.
C9_CaseSensitiveVendorProbe ==
    intel_gpu # "unprobed" =>
        /\ intel_gpu = "intel" <=> HasExactIntel(vendor)
        /\ intel_gpu = "intel" =>
              /\ pc = "returned"
              /\ result = Unsupported
              /\ nativeCreated = {}
              /\ calls = <<>>
              /\ glLive = {}
              /\ ~dxgi_interop.live
        /\ intel_gpu = "other" => pc # "start" /\ ~(result = Unsupported /\ ~extQueried)

\* "Intel" inside a longer vendor string was reported incompatible.
C9_Witness ==
    /\ intel_gpu = "intel"
    /\ Len(vendor) = 6
    /\ vendor[1] # "I"
    /\ result = Unsupported

\* C10 as stated: the prober reports unsupported exactly for the vendor strings
\* that contain the vendor name in any letter case.
C10_AnyCaseVendorProbe ==
    intel_gpu # "unprobed" =>
        (intel_gpu = "intel" <=> HasAnyCaseIntel(vendor))

\* C10 amended: the prober reports unsupported for the vendor strings that
\* contain the vendor name in exactly the letter case "Intel"; for every other
\* vendor string, those that contain another letter-case variant such as
\* "intel" included, it reports supported.
C10_ExactCaseVendorProbe ==
    intel_gpu # "unprobed" =>
        /\ (HasAnyCaseIntel(vendor) /\ HasExactIntel(vendor)) => intel_gpu = "intel"
        /\ (HasAnyCaseIntel(vendor) /\ ~HasExactIntel(vendor)) => intel_gpu = "other"
        /\ ~HasAnyCaseIntel(vendor) => intel_gpu = "other"

\* A vendor string with the name in another letter case passed the prober.
C10_Witness ==
    /\ intel_gpu = "other"
    /\ HasAnyCaseIntel(vendor)
    /\ pc = "handle"

\* C11 as stated: a window handle that is not a Win32 handle is rejected with
\* the input error as the very first step, for every vendor string: nothing
\* else is done and nothing else decides the result.
C11_HandleRejectedFirst ==
    handle_kind # "Win32" =>
        /\ pc \in {"start", "handle", "returned"}
        /\ pc = "returned" =>
              /\ result.tag = "Failure"
              /\ result.detail =
                    "Only Win32 handles can be used to create a DXGI swapchain"
        /\ calls = <<>>
        /\ nativeCreated = {}

\* C11 amended: a window handle that is not a Win32 handle is rejected with
\* the input error as the first step after the vendor probe: when the vendor
\* string does not contain "Intel" the result is the input error, when it does
\* the result is Unsupported; in both cases no device, swapchain or extension
\* query is made.
C11_HandleRejectedAfterVendorProbe ==
    (handle_kind # "Win32" /\ pc # "start") =>
        /\ pc \in {"handle", "returned"}
        /\ pc = "handle" => ~HasExactIntel(vendor) /\ result = NoResult
        /\ pc = "returned" =>
              /\ HasExactIntel(vendor) => result = Unsupported
              /\ ~HasExactIntel(vendor) =>
                    /\ result.tag = "Failure"
                    /\ result.detail =
                          "Only Win32 handles can be used to create a DXGI swapchain"
        /\ calls = <<>>
        /\ nativeCreated = {}
        /\ ~extQueried

\* A handle of another kind was rejected with the input error.
C11_Witness ==
    /\ handle_kind = "Other"
    /\ pc = "returned"
    /\ result.tag = "Failure"
    /\ Len(vendor) = MaxVendorLen

\* C12: every fallible step of construction either recovers through the
\* renderbuffer-to-texture fallback or makes construction return a Failure at
\* once; construction never ends in another way, such as a panic.
C12_FailuresPropagate ==
    /\ pc # "panicked"
    /\ result.tag # "Panic"
    /\ pc = "returned" => result.tag \in {"Ok", "Unsupported", "Failure"}

\* C13: construction returns Unsupported exactly when the cause is the
\* known-bad vendor or a missing interop extension (an unresolvable extensions
\* query included); every other unsuccessful outcome is a Failure with a
\* non-empty detail string.
C13_TwoLevelTaxonomy ==
    pc \in {"returned", "panicked"} =>
        /\ result.tag = "Unsupported" <=>
              \/ HasExactIntel(vendor)
              \/ extQueried /\ InteropNameAbsent(extensions)
        /\ result.tag \notin {"Ok", "Unsupported"} =>
              result.tag = "Failure" /\ result.detail # ""

\* What follows a call of the cycle in the log.
NextCycleOp(op) ==
    CASE op = "DXLockObjectsNV" -> "render"
      [] op = "render" -> "DXUnlockObjectsNV"
      [] op = "DXUnlockObjectsNV" -> "Present"
      [] op = "Present" -> "DXLockObjectsNV"

\* Where the cycle stands right after a call.
CyclePcAfter(op) ==
    CASE op = "DXLockObjectsNV" -> "locked"
      [] op = "render" -> "rendering"
      [] op = "DXUnlockObjectsNV" -> "unlocked"
      [] op = "Present" -> "idle"

\* C14: in the cycle no call outcome changes the control flow: after a failed
\* lock, unlock or present the same next step follows as after a successful
\* one, nothing is surfaced to the caller, and the next cycle call can run.
C14_CycleIgnoresOutcomes ==
    /\ \A i \in 1..Len(cycleLog) :
          /\ cycleLog[i].ret \in {0, 1}
          /\ i < Len(cycleLog) => cycleLog[i + 1].op = NextCycleOp(cycleLog[i].op)
          /\ i = Len(cycleLog) => cpc = CyclePcAfter(cycleLog[i].op)
    /\ \A k \in 1..cycles :
          /\ Len(cycleLog) >= 4 * k
          /\ cycleLog[4 * k - 3].op = "DXLockObjectsNV"
          /\ cycleLog[4 * k - 2].op = "render"
          /\ cycleLog[4 * k - 1].op = "DXUnlockObjectsNV"
          /\ cycleLog[4 * k].op = "Present"
    /\ cycleLog # <<>> => result = Ok /\ dxgi_interop.live /\ pc = "returned"
    /\ (dxgi_interop.live /\ cpc = "idle" /\ cycles < MaxCycles) => ENABLED CycleLock

\* A cycle in which lock, unlock and present all failed was followed by
\* another complete cycle.
C14_Witness ==
    /\ cycles = 2
    /\ cpc = "idle"
    /\ Len(cycleLog) = 8
    /\ cycleLog[1].ret = 0
    /\ cycleLog[3].ret = 0
    /\ cycleLog[4].ret = 0

\* C15: in every construction that reaches registration, buffer 0 of the
\* swapchain has been bound as render target and cleared to transparent black
\* exactly once, before the interop device is opened and before any
\* registration; the resource registered is that same buffer.
C15_ClearBeforeRegistration ==
    (CallsOf("DXRegisterObjectNV") # {} \/ CallsOf("DXOpenDeviceNV") # {}) =>
        /\ clears = 1
        /\ \E g \in CallsOf("GetBuffer"), b \in CallsOf("OMSetRenderTargets"),
              c \in CallsOf("ClearRenderTargetView") :
              /\ CallsOf("GetBuffer") = {g}
              /\ CallsOf("OMSetRenderTargets") = {b}
              /\ CallsOf("ClearRenderTargetView") = {c}
              /\ calls[g].args = <<0>>
              /\ calls[b].args = <<color_buffer>>
              /\ calls[c].args = <<color_buffer, 0, 0, 0, 0>>
              /\ g < b /\ b < c
              /\ \A o \in CallsOf("DXOpenDeviceNV") : c < o
              /\ \A r \in CallsOf("DXRegisterObjectNV") :
                    c < r /\ calls[r].args[2] = color_buffer
        /\ color_buffer \in {41, 42}

\* Both registration attempts were made, after one clear.
C15_Witness ==
    /\ Cardinality(CallsOf("DXRegisterObjectNV")) = 2
    /\ clears = 1
    /\ color_buffer = 42

\* C16: on every successful construction color attachment 0 of the framebuffer
\* holds the object whose registration succeeded, attached with the call of
\* its kind; the fbo of the returned context is the framebuffer created before
\* registration; the framebuffer binding is back to the default.
C16_AttachmentMatchesRegistration ==
    dxgi_interop.live =>
        /\ registered = {attachment}
        /\ attachment[1] = "renderbuffer" =>
              /\ \E i \in CallsOf("framebuffer_renderbuffer") :
                    calls[i].args = <<36161, attachment[2]>>
              /\ CallsOf("framebuffer_texture_2d") = {}
        /\ attachment[1] = "texture" =>
              /\ \E i \in CallsOf("framebuffer_texture_2d") :
                    calls[i].args = <<3553, attachment[2], 0>>
              /\ CallsOf("framebuffer_renderbuffer") = {}
        /\ dxgi_interop.fbo = fbo
        /\ <<"framebuffer", fbo>> \in glLive
        /\ \E f \in CallsOf("create_framebuffer") :
              /\ CallsOf("create_framebuffer") = {f}
              /\ \A r \in CallsOf("DXRegisterObjectNV") : f < r
        /\ \E i \in CallsOf("bind_framebuffer") :
              /\ calls[i].args = <<fbo>>
              /\ calls[i + 1].op \in {"framebuffer_renderbuffer", "framebuffer_texture_2d"}
        /\ boundFramebuffer = 0
        /\ calls[Len(calls)] = Call("bind_framebuffer", <<0>>)

\* A context whose attachment is the texture of the fallback.
C16_Witness ==
    /\ dxgi_interop.live
    /\ attachment = <<"texture", texture>>
    /\ fbo = 2

\* The place of a position of create_dxgi_swapchain in the source order.
PcRank(p) ==
    CASE p = "start" -> 0
      [] p = "handle" -> 1
      [] p = "d3d" -> 2
      [] p = "expect" -> 3
      [] p = "ext" -> 4
      [] p = "resolve" -> 5
      [] p = "buffer" -> 6
      [] p = "view" -> 7
      [] p = "open" -> 8
      [] p = "fbo" -> 9
      [] p = "rbo" -> 10
      [] p = "reg_rbo" -> 11
      [] p = "del_rbo" -> 12
      [] p = "tex" -> 13
      [] p = "reg_tex" -> 14
      [] p \in {"attach_tex", "attach_rbo"} -> 15
      [] p = "status" -> 16
      [] p = "finish" -> 17
      [] p \in {"returned", "panicked"} -> 18

\* The place of an observed call in the setup order.
CallStage(c) ==
    CASE c.op = "D3D11CreateDeviceAndSwapChain" -> 1
      [] c.op = "wglGetExtensionsStringARB" -> 2
      [] c.op = "GetBuffer" -> 3
      [] c.op = "CreateRenderTargetView" -> 4
      [] c.op = "OMSetRenderTargets" -> 5
      [] c.op = "ClearRenderTargetView" -> 6
      [] c.op = "DXOpenDeviceNV" -> 7
      [] c.op = "create_framebuffer" -> 8
      [] c.op = "create_renderbuffer" -> 9
      [] c.op = "DXRegisterObjectNV" -> IF c.args[4] = 36161 THEN 10 ELSE 13
      [] c.op = "delete_renderbuffer" -> 11
      [] c.op = "create_texture" -> 12
      [] c.op = "bind_framebuffer" -> IF c.args = <<0>> THEN 17 ELSE 14
      [] c.op \in {"framebuffer_renderbuffer", "framebuffer_texture_2d"} -> 15
      [] c.op = "check_framebuffer_status" -> 16

\* Each step has run only after every earlier step succeeded, and nothing is
\* created twice.
SetupInOrder ==
    /\ \A i, j \in 1..Len(calls) : i < j => CallStage(calls[i]) < CallStage(calls[j])
    /\ CallsOf("D3D11CreateDeviceAndSwapChain") # {} =>
          intel_gpu = "other" /\ handle_kind = "Win32"
    /\ extQueried =>
          /\ nativeCreated = {"swap_chain", "context", "device"}
          /\ Cardinality(CallsOf("D3D11CreateDeviceAndSwapChain")) = 1
    /\ dx_interop # {} =>
          extQueried /\ ~InteropNameAbsent(extensions) /\ Cardinality(dx_interop) = 7
    /\ CallsOf("GetBuffer") # {} => dx_interop # {}
    /\ CallsOf("DXOpenDeviceNV") # {} => clears = 1
    /\ CallsOf("create_framebuffer") # {} => ValidHandle(gl_handle_d3d)
    /\ CallsOf("create_renderbuffer") # {} => fbo # 0
    /\ CallsOf("DXRegisterObjectNV") # {} => rbo # 0
    /\ CallsOf("delete_renderbuffer") # {} =>
          \E r \in RegistrationsOf(36161) : ~ValidHandle(calls[r].ret)
    /\ RegistrationsOf(3553) # {} => texture # 0
    /\ CallsOf("bind_framebuffer") # {} =>
          ValidHandle(color_handle_gl) /\ Cardinality(registered) = 1
    /\ fb_status # -1 => attachment # <<>>
    /\ (fb_status # -1 /\ ~dxgi_interop.live) => boundFramebuffer = fbo
    /\ Cardinality({o \in glLive : o[1] = "framebuffer"}) <= 1
    /\ Cardinality(LiveSharedCandidates) <= 1
    /\ Cardinality(registered) <= 1
    /\ dxgi_interop.live =>
          /\ nativeLive = {"swap_chain", "context", "device"}
          /\ Cardinality(CallsOf("create_framebuffer")) = 1
          /\ Cardinality(LiveSharedCandidates) = 1
          /\ fb_status # -1

\* C17: setup proceeds in one direction with no step revisited (vendor check,
\* native creation, extension check and resolution, bind/clear and open,
\* registration, fallback, attach and validation), each step only after every
\* earlier one succeeded, with exactly one device, swapchain and framebuffer
\* and at most one live shared object.
C17_SetupOneDirection ==
    /\ []SetupInOrder
    /\ [][PcRank(pc') > PcRank(pc)]_pc

\* A construction that went through every stage, the fallback included.
C17_Witness ==
    /\ pc = "returned"
    /\ result = Ok
    /\ Len(calls) = 17

\* The entry points a teardown would call.
TeardownOps == {"DXCloseDeviceNV", "DXUnregisterObjectNV", "DXSetResourceShareHandleNV"}

\* None of the teardown entry points has been called.
NoTeardownCall ==
    /\ \A i \in 1..Len(calls) : calls[i].op \notin TeardownOps
    /\ \A i \in 1..Len(cycleLog) : cycleLog[i].op \notin TeardownOps

\* Construction returned a Failure after the interop device was opened.
FailedAfterOpen ==
    /\ pc = "returned"
    /\ result.tag = "Failure"
    /\ ValidHandle(gl_handle_d3d)

\* C18 as stated: the teardown entry points are never invoked, so when
\* construction returns a Failure after the interop device was opened, the
\* registered object stays registered, every GL framebuffer, renderbuffer and
\* texture that was created stays undeleted, and the framebuffer stays bound.
C18_NothingReleasedOnFailure ==
    /\ NoTeardownCall
    /\ FailedAfterOpen =>
          /\ <<"framebuffer", fbo>> \in glLive
          /\ rbo # 0 => <<"renderbuffer", rbo>> \in glLive
          /\ texture # 0 => <<"texture", texture>> \in glLive
          /\ boundFramebuffer = fbo

\* C18 amended: the teardown entry points are never invoked, so when
\* construction returns a Failure after the interop device was opened, the
\* device handle stays open, a registered object stays registered and the GL
\* framebuffer and texture stay undeleted; the renderbuffer stays undeleted
\* unless the fallback abandoned it (it is deleted before the texture
\* registration), and the framebuffer stays bound when the Failure is a bad
\* framebuffer status (before a texture registration failure it was never bound).
C18_NoTeardownOnFailure ==
    /\ NoTeardownCall
    /\ FailedAfterOpen =>
          /\ fbo # 0 /\ rbo # 0
          /\ fb_status = -1 =>
                /\ RegistrationsOf(3553) # {}
                /\ registered = {}
                /\ glLive = {<<"framebuffer", fbo>>, <<"texture", texture>>}
                /\ boundFramebuffer = 0
          /\ fb_status # -1 =>
                /\ registered = {attachment}
                /\ glLive = {<<"framebuffer", fbo>>, attachment}
                /\ attachment = (IF texture # 0 THEN <<"texture", texture>>
                                 ELSE <<"renderbuffer", rbo>>)
                /\ boundFramebuffer = fbo

\* A bad framebuffer status after the fallback to a texture.
C18_Witness ==
    /\ FailedAfterOpen
    /\ fb_status = 36054
    /\ texture # 0
    /\ boundFramebuffer = fbo

\* The positions of the messages of one kind.
MessagesOf(tag) == {i \in 1..Len(messages) : messages[i].tag = tag}

\* The value of the last message of one kind, or the default when there is none.
LastChosen(tag, default) ==
    IF MessagesOf(tag) = {} THEN default
    ELSE messages[CHOOSE i \in MessagesOf(tag) : \A j \in MessagesOf(tag) : j <= i].value

\* The step handles a message of one of the given kinds.
Handles(tags) ==
    /\ Len(messages') = Len(messages) + 1
    /\ messages'[Len(messages')].tag \in tags

\* C19: SetColorMode(c) sets the color mode to c and leaves the fill mode,
\* SetFillMode(f) sets the fill mode to f and leaves the color mode; neither
\* saves, logs or returns the close command, so the configuration holds the
\* last value chosen for each option and nothing is saved before a Save.
C19_SetMessagesUpdateOnly ==
    /\ [](/\ config.flux.color_mode
               = LastChosen("SetColorMode", flags.flux.color_mode)
          /\ config.platform.windows.fill_mode
               = LastChosen("SetFillMode", flags.platform.windows.fill_mode)
          /\ MessagesOf("Save") = {} =>
                /\ saves = <<>>
                /\ errors_logged = 0
                /\ \A i \in 1..Len(commands) : commands[i] = "none")
    /\ [][Handles({"SetColorMode"}) =>
            /\ config'.flux.color_mode = messages'[Len(messages')].value
            /\ config'.platform = config.platform]_vars
    /\ [][Handles({"SetFillMode"}) =>
            /\ config'.platform.windows.fill_mode = messages'[Len(messages')].value
            /\ config'.flux = config.flux]_vars
    /\ [][Handles({"SetColorMode", "SetFillMode"}) =>
            /\ saves' = saves
            /\ stored' = stored
            /\ errors_logged' = errors_logged
            /\ commands' = Append(commands, "none")]_vars

\* Both options were changed, the color twice, and nothing has been saved.
C19_Witness ==
    /\ Cardinality(MessagesOf("SetColorMode")) = 2
    /\ Cardinality(MessagesOf("SetFillMode")) = 1
    /\ config.flux.color_mode # flags.flux.color_mode
    /\ config.platform.windows.fill_mode # flags.platform.windows.fill_mode
    /\ messages[1].value # config.flux.color_mode
    /\ saves = <<>>

\* C20: a Save calls save exactly once, on the current configuration, and
\* returns the close command whether the save succeeded or failed; a failure is
\* logged, and the configuration in memory is not changed.
C20_SaveAlwaysCloses ==
    /\ [](/\ Len(saves) = Cardinality(MessagesOf("Save"))
          /\ Len(commands) = Len(messages)
          /\ \A i \in MessagesOf("Save") : commands[i] = "close"
          /\ errors_logged = Cardinality({i \in 1..Len(saves) : ~saves[i].ok}))
    /\ [][Handles({"Save"}) =>
            /\ saves' = Append(saves, saves'[Len(saves')])
            /\ saves'[Len(saves')].config = config
            /\ config' = config
            /\ commands' = Append(commands, "close")
            /\ saves'[Len(saves')].ok => stored' = config]_vars

\* A changed configuration whose save failed: the error is logged, the window
\* is told to close and the configuration is as edited.
C20_Witness ==
    /\ messages # <<>>
    /\ messages[Len(messages)].tag = "Save"
    /\ ~saves[Len(saves)].ok
    /\ errors_logged = 1
    /\ commands[Len(commands)] = "close"
    /\ config # flags
    /\ stored # config

====
